---- MODULE Spec2Model ----
(***************************************************************************)
(* Model of the 16-bit SIC simulator in CPU.cpp: Memory (4096 bytes with   *)
(* big-endian word access), ALU, the three registers PC, IR and AC, and    *)
(* the CPU's fetch / execute / dump-prompt run loop.                       *)
(***************************************************************************)
EXTENDS Integers, Sequences, FiniteSets, TLC

VARIABLES
    mem,      \* Memory::mem, the byte array: the non-zero bytes by index
    PC,       \* CPU::PC
    IR,       \* CPU::IR
    AC,       \* CPU::AC
    phase,    \* position in main/CPU::run: "fetch", "execute", "prompt", "halted"
              \* ("load", "loaded", "aborted" in loadProgram; "api" in a direct call)
    err,      \* the exception that ended the run loop, "none" while running
    io,       \* what the last step reported on the console
    call,     \* the last Memory::readWord / Memory::writeWord call and its outcome
    ncalls,   \* number of calls the Memory test driver has made
    pre,      \* history: registers and memory when the current cycle's fetch began
    hist,     \* history: how many fetches and how many executes have succeeded
    ld,       \* loadProgram: the lines of prog.txt, the next line, and address
    drv       \* the inputs and results of the function exercised on its own

vars == <<mem, PC, IR, AC, phase, err, io, call, ncalls, pre, hist, ld, drv>>

\* static const int MEM_SIZE = 4096
MEM_SIZE == 4096

\* uint16_t / uint8_t
WORD == 65536
BYTE == 256

Addr == 0 .. MEM_SIZE - 1

\* Memory() : mem(MEM_SIZE, 0).  A byte array is kept as the function from
\* the indices of its non-zero bytes to those bytes; every other byte is 0.
ZeroMem == [i \in {} |-> 0]

\* mem[i] as an rvalue
byteAt(m, i) == IF i \in DOMAIN m THEN m[i] ELSE 0

\* mem[i] = b
setByte(m, i, b) ==
    [j \in (IF b = 0 THEN DOMAIN m \ {i} ELSE DOMAIN m \cup {i}) |->
        IF j = i THEN b ELSE m[j]]

\* the exceptions, named by what they report
OutOfRange == "OutOfRange"
DivisionByZero == "DivisionByZero"
UnknownOpcode == "UnknownOpcode"

\* x & y and x | y on non-negative integers, bit by bit
RECURSIVE BitAnd(_, _)
BitAnd(x, y) ==
    IF x = 0 \/ y = 0 THEN 0
    ELSE (IF x % 2 = 1 /\ y % 2 = 1 THEN 1 ELSE 0) + 2 * BitAnd(x \div 2, y \div 2)

RECURSIVE BitOr(_, _)
BitOr(x, y) ==
    IF x = 0 THEN y
    ELSE IF y = 0 THEN x
    ELSE (IF x % 2 = 1 \/ y % 2 = 1 THEN 1 ELSE 0) + 2 * BitOr(x \div 2, y \div 2)

\* the outcome of a call: a value (or the memory after it), or the exception;
\* idx is the set of byte indices the call dereferenced
Ok(v, touched) == [ok |-> TRUE, val |-> v, err |-> "none", idx |-> touched]
Fail(e) == [ok |-> FALSE, val |-> 0, err |-> e, idx |-> {}]

\* readWord without the address < 0 test
readWord_NoLowerCheck(m, address) ==
    IF address >= MEM_SIZE - 1
    THEN Fail(OutOfRange)
    ELSE Ok(BitOr(byteAt(m, address) * BYTE, byteAt(m, address + 1)),
            {address, address + 1})

\* readWord combining the two bytes low byte first
readWord_LittleEndian(m, address) ==
    IF address < 0 \/ address >= MEM_SIZE - 1
    THEN Fail(OutOfRange)
    ELSE Ok(BitOr(byteAt(m, address + 1) * BYTE, byteAt(m, address)),
            {address, address + 1})

\* Memory::readWord
readWord(m, address) ==
    IF address < 0 \/ address >= MEM_SIZE - 1
    THEN Fail(OutOfRange)
    ELSE Ok(BitOr(byteAt(m, address) * BYTE, byteAt(m, address + 1)),
            {address, address + 1})

\* writeWord storing the low byte in both cells (the shift is missing)
writeWord_NoShift(m, address, value) ==
    IF address < 0 \/ address >= MEM_SIZE - 1
    THEN [Fail(OutOfRange) EXCEPT !.val = m]
    ELSE Ok(setByte(setByte(m, address, BitAnd(value, 255)),
                    address + 1, BitAnd(value, 255)),
            {address, address + 1})

\* writeWord testing the address against MEM_SIZE instead of MEM_SIZE - 1
writeWord_OffByOne(m, address, value) ==
    IF address < 0 \/ address >= MEM_SIZE
    THEN [Fail(OutOfRange) EXCEPT !.val = m]
    ELSE Ok(setByte(setByte(m, address, BitAnd(value \div BYTE, 255)),
                    address + 1, BitAnd(value, 255)),
            {address, address + 1})

\* Memory::writeWord; val is the byte array after the call
writeWord(m, address, value) ==
    IF address < 0 \/ address >= MEM_SIZE - 1
    THEN [Fail(OutOfRange) EXCEPT !.val = m]
    ELSE Ok(setByte(setByte(m, address, BitAnd(value \div BYTE, 255)),
                    address + 1, BitAnd(value, 255)),
            {address, address + 1})

\* Memory::dump, the range check: the exception it throws, if any
dumpCheck(start, end) ==
    IF start < 0 \/ end >= MEM_SIZE \/ start > end
    THEN Fail(OutOfRange)
    ELSE Ok(0, start .. end)

\* one byte as dump prints it: two hexadecimal digits (setw(2), setfill('0'))
\* or the eight bits of std::bitset<8>, most significant first
hexToken(b) == <<b \div 16, b % 16>>
binToken(b) == [k \in 1 .. 8 |-> (b \div 2 ^ (8 - k)) % 2]

\* the for loop with i < end as its test
dumpLines_ExclusiveEnd(m, start, end, format) ==
    LET per == IF format = 16 THEN 16 ELSE 8
        n == end - start
        nlines == (n + per - 1) \div per
    IN  [l \in 1 .. nlines |->
           [t \in 1 .. (IF l * per <= n THEN per ELSE n - (l - 1) * per) |->
              LET b == byteAt(m, start + (l - 1) * per + t - 1)
              IN  IF format = 16 THEN hexToken(b) ELSE binToken(b)]]

\* Memory::dump, the two for loops: the lines printed, each the sequence of
\* its space-separated tokens; a line ends after 16 (hex) or 8 (binary)
\* tokens and after the last byte
dumpLines(m, start, end, format) ==
    LET per == IF format = 16 THEN 16 ELSE 8
        n == end - start + 1
        nlines == (n + per - 1) \div per
    IN  [l \in 1 .. nlines |->
           [t \in 1 .. (IF l * per <= n THEN per ELSE n - (l - 1) * per) |->
              LET b == byteAt(m, start + (l - 1) * per + t - 1)
              IN  IF format = 16 THEN hexToken(b) ELSE binToken(b)]]

\* Memory::dump: the exception, or the heading and the lines it prints
dump(m, start, end, format) ==
    LET c == dumpCheck(start, end)
    IN  [ok |-> c.ok, err |-> c.err,
         heading |-> IF ~c.ok THEN "none" ELSE IF format = 16 THEN "hex" ELSE "bin",
         lines |-> IF c.ok THEN dumpLines(m, start, end, format) ELSE <<>>]

\* ALU::add, ALU::mul, ALU::div, ALU::mod on uint16_t arguments
\* add keeping the int sum (no conversion back to uint16_t)
add_NoWrap(a, b) == Ok(a + b, {})

\* div answering 0 for a zero divisor instead of throwing
div_ZeroGivesZero(a, b) == IF b = 0 THEN Ok(0, {}) ELSE Ok(a \div b, {})

\* div rounding the quotient up
div_RoundUp(a, b) ==
    IF b = 0 THEN Fail(DivisionByZero) ELSE Ok((a + b - 1) \div b, {})

\* the uint16_t operands are promoted to int and the int result is converted
\* back to uint16_t; execute passes b < 4096, so a * b fits an int there
add(a, b) == Ok((a + b) % WORD, {})
mul(a, b) == Ok((a * b) % WORD, {})
div(a, b) == IF b = 0 THEN Fail(DivisionByZero) ELSE Ok(a \div b, {})
mod(a, b) == IF b = 0 THEN Fail(DivisionByZero) ELSE Ok(a % b, {})

\* the largest int: a * b in ALU::mul is an int multiplication
INT_MAX == 2147483647

\* a * b does not fit an int: signed overflow, which is undefined behaviour
mulOverflows(a, b) == b # 0 /\ a > INT_MAX \div b

\* the low 16 bits of the product, computed without leaving the int range
low16Product(a, b) ==
    (((a * (b % BYTE)) % WORD) + (((a * (b \div BYTE)) % BYTE) * BYTE)) % WORD

\* what a build may make of the overflowing multiplication: the wrapped
\* product, some other value, or a trap that ends the process
mulUndefined(a, b) ==
    { Ok(low16Product(a, b), {}), Ok(0, {}), Ok(WORD - 1, {}),
      Fail("SignedOverflow") }

\* ALU::mul on any two uint16_t arguments: every outcome it can have
mulOutcomes(a, b) == IF mulOverflows(a, b) THEN mulUndefined(a, b) ELSE {mul(a, b)}

(***************************************************************************)
(* loadProgram: a source line is <<mnemonic, operand digits>>, a blank     *)
(* line is <<>>; the operand is a sequence of hexadecimal digit values.    *)
(***************************************************************************)
Blank == <<>>

\* the chain with the codes of ADD and MUL exchanged
opcodeOf_AddMulSwapped(mnemonic) ==
    CASE mnemonic = "SEA" -> 15
      [] mnemonic = "ADD" -> 3
      [] mnemonic = "MUL" -> 2
      [] mnemonic = "DIV" -> 4
      [] mnemonic = "MOD" -> 5
      [] mnemonic = "STA" -> 1
      [] mnemonic = "LDA" -> 0
      [] OTHER -> 0

\* the if / else-if chain on the mnemonic; an unmatched mnemonic keeps 0
opcodeOf(mnemonic) ==
    CASE mnemonic = "SEA" -> 15
      [] mnemonic = "ADD" -> 2
      [] mnemonic = "MUL" -> 3
      [] mnemonic = "DIV" -> 4
      [] mnemonic = "MOD" -> 5
      [] mnemonic = "STA" -> 1
      [] mnemonic = "LDA" -> 0
      [] OTHER -> 0

\* std::stoi(operand, nullptr, 16)
RECURSIVE stoi16(_)
stoi16(digits) ==
    IF digits = <<>> THEN 0
    ELSE 16 * stoi16(SubSeq(digits, 1, Len(digits) - 1)) + digits[Len(digits)]

\* uint16_t instruction = (opcodeBinary << 12) | operandBinary
encode(opcodeBinary, operandBinary) ==
    BitOr(opcodeBinary * 4096, operandBinary) % WORD

\* the instruction word assembled from one non-blank line
assemble(line) ==
    LET opcodeBinary == opcodeOf(line[1])
        operandBinary == stoi16(line[2]) % WORD
    IN  encode(opcodeBinary, operandBinary)

\* the while (getline) loop from the given address on; an exception of
\* writeWord is not caught and ends the process
\* (val is the byte array, address the loop's address, left the lines not read)
RECURSIVE loadFrom(_, _, _)
loadFrom(m, lines, address) ==
    IF lines = <<>>
    THEN [ok |-> TRUE, val |-> m, err |-> "none", address |-> address, left |-> 0]
    ELSE IF Head(lines) = Blank THEN loadFrom(m, Tail(lines), address)
    ELSE LET w == writeWord(m, address, assemble(Head(lines)))
         IN  IF w.ok THEN loadFrom(w.val, Tail(lines), address + 2)
             ELSE [ok |-> FALSE, val |-> w.val, err |-> w.err,
                   address |-> address, left |-> Len(lines)]

loadProgram(m, lines) == loadFrom(m, lines, 0)

(***************************************************************************)
(* The program sources the model runs.                                     *)
(***************************************************************************)
\* longest generated program body, in source lines
MaxLines == 2

\* lines that execute without an exception
BodyLines ==
    { <<"SEA", <<0, 0, 0, 5>>>>,
      <<"SEA", <<0, 15, 15, 15>>>>,
      <<"ADD", <<0, 0, 0, 3>>>>,
      <<"MUL", <<0, 15, 15, 15>>>>,
      <<"DIV", <<0, 0, 0, 2>>>>,
      <<"MOD", <<0, 0, 0, 3>>>>,
      <<"STA", <<0, 15, 15, 14>>>>,
      <<"LDA", <<0, 15, 15, 14>>>>,
      <<"LDA", <<0, 0, 0, 0>>>>,
      Blank }

\* lines whose instruction throws: division by zero, word access at 4095,
\* and operands above FFF that spill into the opcode nibble (0x6, 0xE)
FaultLines ==
    { <<"DIV", <<0, 0, 0, 0>>>>,
      <<"MOD", <<0, 0, 0, 0>>>>,
      <<"STA", <<0, 15, 15, 15>>>>,
      <<"LDA", <<0, 15, 15, 15>>>>,
      <<"ADD", <<4, 0, 0, 0>>>>,
      <<"LDA", <<14, 1, 2, 3>>>> }

\* one line for each unassigned opcode nibble, 0x6 to 0xE
UnknownLines == { <<"LDA", <<k, 1, 2, 3>>>> : k \in 6 .. 14 }

Bodies == UNION { [1 .. n -> BodyLines] : n \in 0 .. MaxLines }

\* programs that run on into the zeroed memory behind them
LongPrograms ==
    { << >>,
      << <<"SEA", <<0, 0, 0, 5>>>>, <<"ADD", <<0, 0, 0, 3>>>>,
         <<"STA", <<0, 0, 1, 0>>>>, <<"LDA", <<0, 0, 1, 0>>>> >>,
      << <<"SEA", <<0, 15, 15, 15>>>>, <<"LDA", <<0, 0, 0, 0>>>>,
         <<"ADD", <<0, 0, 0, 3>>>>, <<"MUL", <<0, 15, 15, 15>>>> >>,
      << <<"SEA", <<0, 15, 15, 15>>>>, <<"STA", <<0, 0, 0, 1>>>>,
         <<"LDA", <<0, 0, 0, 1>>>> >> }

ShortPrograms ==
    { body \o <<f>> : body \in Bodies, f \in FaultLines }
    \cup { << <<"SEA", <<0, 0, 0, 0>>>>, <<"DIV", <<0, 0, 0, 0>>>> >> }
    \cup { << <<"SEA", <<0, 0, 0, 5>>>>, u >> : u \in UnknownLines }

Programs == ShortPrograms \cup LongPrograms

\* longest generated program body of the runs followed to their end
MaxRunLines == 1

\* the programs of the runs followed to their end: the long programs, and a
\* short body before each faulting line
RunPrograms ==
    { body \o <<f>> : body \in UNION { [1 .. n -> BodyLines] : n \in 0 .. MaxRunLines },
                      f \in FaultLines \cup UnknownLines }
    \cup LongPrograms

\* what the user may type for a dump: start, end and format
DumpStarts == {-1, 0, 16}
DumpEnds == {15, 4095, 4096}
DumpFormats == {2, 16}

\* nothing fetched or executed yet; no program file; no function exercised
NoHist == [fetches |-> 0, executes |-> 0]
NoLoad == [pad |-> 0, prog |-> <<>>, next |-> 1, address |-> 0]
NoDrv == [fn |-> "none"]

NoCall == [op |-> "none", address |-> 0, value |-> 0, ok |-> TRUE,
           val |-> 0, err |-> "none", idx |-> {}]

CallOf(op, address, value, r) ==
    [op |-> op, address |-> address, value |-> value, ok |-> r.ok,
     val |-> IF op = "readWord" THEN r.val ELSE 0, err |-> r.err, idx |-> r.idx]

\* main: Memory memory; CPU cpu(memory); loadProgram(memory, "prog.txt")
Start(lines) ==
    LET l == loadProgram(ZeroMem, lines)
    IN  /\ mem = l.val
        /\ phase = IF l.ok THEN "fetch" ELSE "aborted"
        /\ PC = 0
        /\ IR = 0
        /\ AC = 0
        /\ err = l.err
        /\ io = "none"
        /\ call = NoCall
        /\ ncalls = 0
        /\ pre = [PC |-> 0, IR |-> 0, AC |-> 0, mem |-> mem]
        /\ hist = NoHist
        /\ ld = [pad |-> 0, prog |-> lines,
                 next |-> Len(lines) + 1 - l.left, address |-> l.address]
        /\ drv = NoDrv

Init == \E lines \in Programs : Start(lines)

InitRun == \E lines \in RunPrograms : Start(lines)

\* the outer catch without its break
afterThrow_NoBreak == "fetch"

\* a handler that reports and then never returns: the run neither goes on nor ends
afterThrow_Hang == "hung"

\* CPU::run, catch (const std::exception&) around the cycle: report and break
afterThrow == "halted"

\* dump called outside the inner try, so that the outer catch ends the run
afterDumpThrow_Break == "halted"

\* CPU::run, catch around memory.dump: report and go on with the loop
afterDumpThrow == "fetch"

\* fetch advancing PC by 1, as for a word-addressed memory
Fetch_AdvanceByOne ==
    /\ phase = "fetch"
    /\ LET address == PC
           r == readWord(mem, address)
       IN  /\ pre' = [PC |-> PC, IR |-> IR, AC |-> AC, mem |-> mem]
           /\ call' = CallOf("readWord", address, 0, r)
           /\ IF r.ok
              THEN /\ IR' = r.val
                   /\ PC' = (address + 1) % WORD
                   /\ phase' = "execute"
                   /\ err' = "none"
                   /\ io' = "none"
                   /\ hist' = [hist EXCEPT !.fetches = @ + 1]
              ELSE /\ UNCHANGED <<IR, PC, hist>>
                   /\ phase' = afterThrow
                   /\ err' = r.err
                   /\ io' = "error"
    /\ UNCHANGED <<mem, AC, ncalls, ld, drv>>

\* fetch keeping PC inside the memory by wrapping it at MEM_SIZE
Fetch_WrapAtMemSize ==
    /\ phase = "fetch"
    /\ LET address == PC
           r == readWord(mem, address)
       IN  /\ pre' = [PC |-> PC, IR |-> IR, AC |-> AC, mem |-> mem]
           /\ call' = CallOf("readWord", address, 0, r)
           /\ IF r.ok
              THEN /\ IR' = r.val
                   /\ PC' = (address + 2) % MEM_SIZE
                   /\ phase' = "execute"
                   /\ err' = "none"
                   /\ io' = "none"
                   /\ hist' = [hist EXCEPT !.fetches = @ + 1]
              ELSE /\ UNCHANGED <<IR, PC, hist>>
                   /\ phase' = afterThrow
                   /\ err' = r.err
                   /\ io' = "error"
    /\ UNCHANGED <<mem, AC, ncalls, ld, drv>>

\* CPU::fetch inside CPU::run
Fetch ==
    /\ phase = "fetch"
    /\ LET address == PC
           r == readWord(mem, address)
       IN  /\ pre' = [PC |-> PC, IR |-> IR, AC |-> AC, mem |-> mem]
           /\ call' = CallOf("readWord", address, 0, r)
           /\ IF r.ok
              THEN /\ IR' = r.val
                   /\ PC' = (address + 2) % WORD
                   /\ phase' = "execute"
                   /\ err' = "none"
                   /\ io' = "none"
                   /\ hist' = [hist EXCEPT !.fetches = @ + 1]
              ELSE /\ UNCHANGED <<IR, PC, hist>>
                   /\ phase' = afterThrow
                   /\ err' = r.err
                   /\ io' = "error"
    /\ UNCHANGED <<mem, AC, ncalls, ld, drv>>

\* CPU::execute, the decode
opcodeIn(instruction) == BitAnd(instruction \div 4096, 15)

\* the operand taken from the low byte only
operandIn_ByteMask(instruction) == BitAnd(instruction, 255)

operandIn(instruction) == BitAnd(instruction, 4095)

\* the switch without its default case: an unassigned opcode does nothing
execute_NoDefault(instruction, ac, m, lastCall) ==
    LET opcode == opcodeIn(instruction)
        operand == operandIn(instruction)
        alu(r) == [ok |-> r.ok, err |-> r.err, AC |-> IF r.ok THEN r.val ELSE ac,
                   mem |-> m, call |-> lastCall]
    IN  CASE opcode = 15 -> alu(Ok(operand, {}))
          [] opcode = 2 -> alu(add(ac, operand))
          [] opcode = 3 -> alu(mul(ac, operand))
          [] opcode = 4 -> alu(div(ac, operand))
          [] opcode = 5 -> alu(mod(ac, operand))
          [] opcode = 1 ->
                LET w == writeWord(m, operand, ac)
                IN  [ok |-> w.ok, err |-> w.err, AC |-> ac, mem |-> w.val,
                     call |-> CallOf("writeWord", operand, ac, w)]
          [] opcode = 0 ->
                LET r == readWord(m, operand)
                IN  [ok |-> r.ok, err |-> r.err, AC |-> IF r.ok THEN r.val ELSE ac,
                     mem |-> m, call |-> CallOf("readWord", operand, 0, r)]
          [] OTHER -> alu(Ok(ac, {}))

\* SEA storing its operand in memory as well as in the accumulator
execute_SeaStores(instruction, ac, m, lastCall) ==
    LET opcode == opcodeIn(instruction)
        operand == operandIn(instruction)
        alu(r) == [ok |-> r.ok, err |-> r.err, AC |-> IF r.ok THEN r.val ELSE ac,
                   mem |-> m, call |-> lastCall]
    IN  CASE opcode = 15 ->
                LET w == writeWord(m, 0, operand)
                IN  [ok |-> TRUE, err |-> "none", AC |-> operand, mem |-> w.val,
                     call |-> lastCall]
          [] opcode = 2 -> alu(add(ac, operand))
          [] opcode = 3 -> alu(mul(ac, operand))
          [] opcode = 4 -> alu(div(ac, operand))
          [] opcode = 5 -> alu(mod(ac, operand))
          [] opcode = 1 ->
                LET w == writeWord(m, operand, ac)
                IN  [ok |-> w.ok, err |-> w.err, AC |-> ac, mem |-> w.val,
                     call |-> CallOf("writeWord", operand, ac, w)]
          [] opcode = 0 ->
                LET r == readWord(m, operand)
                IN  [ok |-> r.ok, err |-> r.err, AC |-> IF r.ok THEN r.val ELSE ac,
                     mem |-> m, call |-> CallOf("readWord", operand, 0, r)]
          [] OTHER -> alu(Fail(UnknownOpcode))

\* CPU::execute, the switch: the accumulator, the memory and the Memory call
\* after the instruction, or the exception
execute(instruction, ac, m, lastCall) ==
    LET opcode == opcodeIn(instruction)
        operand == operandIn(instruction)
        alu(r) == [ok |-> r.ok, err |-> r.err, AC |-> IF r.ok THEN r.val ELSE ac,
                   mem |-> m, call |-> lastCall]
    IN  CASE opcode = 15 -> alu(Ok(operand, {}))
          [] opcode = 2 -> alu(add(ac, operand))
          [] opcode = 3 -> alu(mul(ac, operand))
          [] opcode = 4 -> alu(div(ac, operand))
          [] opcode = 5 -> alu(mod(ac, operand))
          [] opcode = 1 ->
                LET w == writeWord(m, operand, ac)
                IN  [ok |-> w.ok, err |-> w.err, AC |-> ac, mem |-> w.val,
                     call |-> CallOf("writeWord", operand, ac, w)]
          [] opcode = 0 ->
                LET r == readWord(m, operand)
                IN  [ok |-> r.ok, err |-> r.err, AC |-> IF r.ok THEN r.val ELSE ac,
                     mem |-> m, call |-> CallOf("readWord", operand, 0, r)]
          [] OTHER -> alu(Fail(UnknownOpcode))

\* CPU::execute inside CPU::run
Execute ==
    /\ phase = "execute"
    /\ LET x == execute(IR, AC, mem, call)
       IN  /\ AC' = x.AC
           /\ mem' = x.mem
           /\ call' = x.call
           /\ IF x.ok
              THEN /\ phase' = "prompt"
                   /\ err' = "none"
                   /\ io' = "debug"
                   /\ hist' = [hist EXCEPT !.executes = @ + 1]
              ELSE /\ phase' = afterThrow
                   /\ err' = x.err
                   /\ io' = "error"
                   /\ hist' = hist
    /\ UNCHANGED <<PC, IR, ncalls, pre, ld, drv>>

\* CPU::run after debug(): the answer to "dump? (y/n)" is not y or Y
NoDump ==
    /\ phase = "prompt"
    /\ phase' = "fetch"
    /\ io' = "none"
    /\ UNCHANGED <<mem, PC, IR, AC, err, call, ncalls, pre, hist, ld, drv>>

\* CPU::run after debug(): the answer is y or Y, then start, end and format
DumpRequest(start, end, format) ==
    /\ phase = "prompt"
    /\ LET d == dumpCheck(start, end)
       IN  IF d.ok
           THEN /\ phase' = "fetch"
                /\ io' = IF format = 16 THEN "dumpHex" ELSE "dumpBin"
           ELSE /\ phase' = afterDumpThrow
                /\ io' = "dumpError"
    /\ UNCHANGED <<mem, PC, IR, AC, err, call, ncalls, pre, hist, ld, drv>>

Next ==
    \/ Fetch
    \/ Execute
    \/ NoDump
    \/ \E start \in DumpStarts, end \in DumpEnds, format \in DumpFormats :
           DumpRequest(start, end, format)

Spec == Init /\ [][Next]_vars

\* CPU::run is a while (true) loop of one thread: as long as the loop has a
\* next step it takes it, the prompt being answered by whoever runs the program
FairSpec == InitRun /\ [][Next]_vars /\ WF_vars(Next)

(***************************************************************************)
(* Memory driven directly through its public readWord and writeWord, with  *)
(* int addresses on both sides of each end of the byte array.              *)
(***************************************************************************)
\* how far the driver's addresses reach past 0 and past MEM_SIZE - 2
Margin == 1

\* how many calls the driver makes
MaxCalls == 2

TestAddrs == (0 - Margin .. Margin) \cup (MEM_SIZE - 2 - Margin .. MEM_SIZE - 1 + Margin)
TestValues == {0, 255, 43981, 65535}

InitMemory ==
    /\ mem \in {ZeroMem, loadProgram(ZeroMem, << <<"SEA", <<0, 0, 0, 5>>>> >>).val}
    /\ phase = "api"
    /\ PC = 0
    /\ IR = 0
    /\ AC = 0
    /\ err = "none"
    /\ io = "none"
    /\ call = NoCall
    /\ ncalls = 0
    /\ pre = [PC |-> 0, IR |-> 0, AC |-> 0, mem |-> mem]
    /\ hist = NoHist
    /\ ld = NoLoad
    /\ drv = NoDrv

ReadWordCall(address) ==
    /\ phase = "api"
    /\ ncalls < MaxCalls
    /\ call' = CallOf("readWord", address, 0, readWord(mem, address))
    /\ ncalls' = ncalls + 1
    /\ UNCHANGED <<mem, PC, IR, AC, phase, err, io, pre, hist, ld, drv>>

WriteWordCall(address, value) ==
    /\ phase = "api"
    /\ ncalls < MaxCalls
    /\ LET w == writeWord(mem, address, value)
       IN  /\ mem' = w.val
           /\ call' = CallOf("writeWord", address, value, w)
    /\ ncalls' = ncalls + 1
    /\ UNCHANGED <<PC, IR, AC, phase, err, io, pre, hist, ld, drv>>

NextMemory ==
    \/ \E address \in TestAddrs : ReadWordCall(address)
    \/ \E address \in TestAddrs, value \in TestValues : WriteWordCall(address, value)

SpecMemory == InitMemory /\ [][NextMemory]_vars

(***************************************************************************)
(* Memory::dump called directly, on memories with bytes at both ends.      *)
(***************************************************************************)
DumpCallStarts == (0 - Margin .. Margin) \cup {16, MEM_SIZE - 1}
DumpCallEnds == (0 - Margin .. Margin) \cup {15, 31}
                    \cup (MEM_SIZE - 1 - Margin .. MEM_SIZE - 1 + Margin)
DumpCallFormats == {2, 10, 16}

DumpMems ==
    { ZeroMem,
      loadProgram(ZeroMem, << <<"SEA", <<0, 0, 0, 5>>>>, <<"ADD", <<0, 0, 0, 3>>>>,
                              <<"STA", <<0, 0, 1, 0>>>>, <<"LDA", <<0, 0, 1, 0>>>> >>).val,
      writeWord(writeWord(ZeroMem, 30, 255).val, MEM_SIZE - 2, 43981).val }

InitDump ==
    /\ mem \in DumpMems
    /\ phase = "api"
    /\ PC = 0
    /\ IR = 0
    /\ AC = 0
    /\ err = "none"
    /\ io = "none"
    /\ call = NoCall
    /\ ncalls = 0
    /\ pre = [PC |-> 0, IR |-> 0, AC |-> 0, mem |-> mem]
    /\ hist = NoHist
    /\ ld = NoLoad
    /\ drv = NoDrv

DumpCall(start, end, format) ==
    /\ phase = "api"
    /\ drv.fn = "none"
    /\ LET d == dump(mem, start, end, format)
       IN  drv' = [fn |-> "dump", start |-> start, end |-> end, format |-> format,
                   ok |-> d.ok, err |-> d.err, heading |-> d.heading,
                   lines |-> d.lines]
    /\ UNCHANGED <<mem, PC, IR, AC, phase, err, io, call, ncalls, pre, hist, ld>>

NextDump ==
    \E start \in DumpCallStarts, end \in DumpCallEnds, format \in DumpCallFormats :
        DumpCall(start, end, format)

SpecDump == InitDump /\ [][NextDump]_vars

(***************************************************************************)
(* The ALU called directly on a pair of uint16_t arguments.                *)
(***************************************************************************)
AluWords ==
    (0 .. Margin) \cup {255, 256, 4095, 4096, 46340, 46341}
        \cup (WORD - 1 - Margin .. WORD - 1)

NotCalled == [ok |-> FALSE, val |-> 0, err |-> "notCalled", idx |-> {}]

InitALU ==
    /\ mem = ZeroMem
    /\ phase = "api"
    /\ PC = 0
    /\ IR = 0
    /\ AC = 0
    /\ err = "none"
    /\ io = "none"
    /\ call = NoCall
    /\ ncalls = 0
    /\ pre = [PC |-> 0, IR |-> 0, AC |-> 0, mem |-> mem]
    /\ hist = NoHist
    /\ ld = NoLoad
    /\ \E a \in AluWords, b \in AluWords :
          drv = [fn |-> "alu", a |-> a, b |-> b, add |-> NotCalled,
                 mul |-> NotCalled, div |-> NotCalled, mod |-> NotCalled]

AluFrame == UNCHANGED <<mem, PC, IR, AC, phase, err, io, call, ncalls, pre, hist, ld>>

AddCall ==
    /\ drv.fn = "alu" /\ drv.add = NotCalled
    /\ drv' = [drv EXCEPT !.add = add(drv.a, drv.b)]
    /\ AluFrame

MulCall ==
    /\ drv.fn = "alu" /\ drv.mul = NotCalled
    /\ \E r \in mulOutcomes(drv.a, drv.b) : drv' = [drv EXCEPT !.mul = r]
    /\ AluFrame

DivCall ==
    /\ drv.fn = "alu" /\ drv.div = NotCalled
    /\ drv' = [drv EXCEPT !.div = div(drv.a, drv.b)]
    /\ AluFrame

ModCall ==
    /\ drv.fn = "alu" /\ drv.mod = NotCalled
    /\ drv' = [drv EXCEPT !.mod = mod(drv.a, drv.b)]
    /\ AluFrame

NextALU == AddCall \/ MulCall \/ DivCall \/ ModCall

SpecALU == InitALU /\ [][NextALU]_vars

(***************************************************************************)
(* The instruction codec: the loader's encoding of an opcode and a 12-bit  *)
(* operand, then the decode at the head of CPU::execute.                   *)
(***************************************************************************)
Opcodes == 0 .. 15

CodecOperands ==
    (0 .. Margin) \cup {15, 16, 255, 256, 2047, 2048} \cup (4095 - Margin .. 4095)

NotEncoded == [done |-> FALSE, instruction |-> 0]
NotDecoded == [done |-> FALSE, opcode |-> 0, operand |-> 0]

InitCodec ==
    /\ mem = ZeroMem
    /\ phase = "api"
    /\ PC = 0
    /\ IR = 0
    /\ AC = 0
    /\ err = "none"
    /\ io = "none"
    /\ call = NoCall
    /\ ncalls = 0
    /\ pre = [PC |-> 0, IR |-> 0, AC |-> 0, mem |-> mem]
    /\ hist = NoHist
    /\ ld = NoLoad
    /\ \E opcode \in Opcodes, operand \in CodecOperands :
          drv = [fn |-> "codec", opcode |-> opcode, operand |-> operand,
                 enc |-> NotEncoded, dec |-> NotDecoded]

CodecFrame == UNCHANGED <<mem, PC, IR, AC, phase, err, io, call, ncalls, pre, hist, ld>>

EncodeCall ==
    /\ drv.fn = "codec" /\ ~drv.enc.done
    /\ drv' = [drv EXCEPT !.enc = [done |-> TRUE,
                                  instruction |-> encode(drv.opcode, drv.operand)]]
    /\ CodecFrame

DecodeCall ==
    /\ drv.fn = "codec" /\ drv.enc.done /\ ~drv.dec.done
    /\ drv' = [drv EXCEPT !.dec = [done |-> TRUE,
                                  opcode |-> opcodeIn(drv.enc.instruction),
                                  operand |-> operandIn(drv.enc.instruction)]]
    /\ CodecFrame

NextCodec ==
    \/ EncodeCall
    \/ DecodeCall

SpecCodec == InitCodec /\ [][NextCodec]_vars

(***************************************************************************)
(* loadProgram taken one iteration of its getline loop at a time.  The     *)
(* file is ld.pad lines "LDA 0" followed by the lines ld.prog; ld.next is  *)
(* the line getline returns next, ld.address the loop's address.           *)
(***************************************************************************)
\* most lines of a generated program file
MaxLoad == 2

Mnemonics == {"SEA", "ADD", "MUL", "DIV", "MOD", "STA", "LDA"}

\* operand literals 5, FFF, 4000, FFFF and 10005
LoadOperands ==
    { <<5>>, <<15, 15, 15>>, <<4, 0, 0, 0>>, <<15, 15, 15, 15>>, <<1, 0, 0, 0, 5>> }

LoadLines == { <<mn, d>> : mn \in Mnemonics, d \in LoadOperands } \cup {Blank}

ZeroLine == <<"LDA", <<0>>>>

\* lines that fill the memory up to its last word
PadLines == MEM_SIZE \div 2 - 1

\* the ends of files that reach, or pass, the end of the memory
PaddedEnds ==
    { << <<"SEA", <<1>>>> >>,
      << Blank, <<"SEA", <<1>>>>, Blank >>,
      << <<"SEA", <<1>>>>, <<"SEA", <<2>>>> >>,
      << <<"SEA", <<1>>>>, Blank, <<"SEA", <<2>>>> >> }

LoadFiles ==
    { [pad |-> 0, prog |-> t] : t \in UNION { [1 .. n -> LoadLines] : n \in 0 .. MaxLoad } }
    \cup { [pad |-> PadLines, prog |-> t] : t \in PaddedEnds }

fileLength(f) == f.pad + Len(f.prog)
lineAt(f, i) == IF i <= f.pad THEN ZeroLine ELSE f.prog[i - f.pad]

InitLoader ==
    /\ mem = ZeroMem
    /\ phase = "load"
    /\ PC = 0
    /\ IR = 0
    /\ AC = 0
    /\ err = "none"
    /\ io = "none"
    /\ call = NoCall
    /\ ncalls = 0
    /\ pre = [PC |-> 0, IR |-> 0, AC |-> 0, mem |-> mem]
    /\ hist = NoHist
    /\ \E f \in LoadFiles :
          ld = [pad |-> f.pad, prog |-> f.prog, next |-> 1, address |-> 0]
    /\ drv = NoDrv

LoaderFrame == UNCHANGED <<PC, IR, AC, io, ncalls, pre, hist, drv>>

\* a blank line taking an address of its own
LoadBlank_ConsumesAddress ==
    /\ phase = "load"
    /\ ld.next <= fileLength(ld)
    /\ lineAt(ld, ld.next) = Blank
    /\ ld' = [ld EXCEPT !.next = @ + 1, !.address = @ + 2]
    /\ UNCHANGED <<mem, phase, err, call>>
    /\ LoaderFrame

\* if (line.empty()) continue
LoadBlank ==
    /\ phase = "load"
    /\ ld.next <= fileLength(ld)
    /\ lineAt(ld, ld.next) = Blank
    /\ ld' = [ld EXCEPT !.next = @ + 1]
    /\ UNCHANGED <<mem, phase, err, call>>
    /\ LoaderFrame

\* a non-blank line: assemble it, writeWord, address += 2; an exception of
\* writeWord is not caught and ends the process
LoadLine ==
    /\ phase = "load"
    /\ ld.next <= fileLength(ld)
    /\ lineAt(ld, ld.next) # Blank
    /\ LET instruction == assemble(lineAt(ld, ld.next))
           w == writeWord(mem, ld.address, instruction)
       IN  /\ call' = CallOf("writeWord", ld.address, instruction, w)
           /\ IF w.ok
              THEN /\ mem' = w.val
                   /\ ld' = [ld EXCEPT !.next = @ + 1, !.address = @ + 2]
                   /\ UNCHANGED <<phase, err>>
              ELSE /\ phase' = "aborted"
                   /\ err' = w.err
                   /\ UNCHANGED <<mem, ld>>
    /\ LoaderFrame

\* getline fails at the end of the file: file.close() and return
LoadDone ==
    /\ phase = "load"
    /\ ld.next > fileLength(ld)
    /\ phase' = "loaded"
    /\ UNCHANGED <<mem, err, call, ld>>
    /\ LoaderFrame

NextLoader ==
    \/ LoadBlank
    \/ LoadLine
    \/ LoadDone

SpecLoader == InitLoader /\ [][NextLoader]_vars

(***************************************************************************)
(* Properties                                                              *)
(***************************************************************************)
WordAddrs == 0 .. MEM_SIZE - 2

HighByte(v) == (v \div 256) % 256
LowByte(v) == v % 256

\* the big-endian word at a in m
WordAt(m, a) == 256 * byteAt(m, a) + byteAt(m, a + 1)

\* C1: readWord(a) and writeWord(a, v) succeed exactly for a in [0, size-2]
\* and otherwise fail with OutOfRange; a failing writeWord leaves every byte
\* unchanged; no call touches a byte index outside [0, 4095].
C1_WordAccessBounds ==
    [][ncalls' # ncalls =>
          /\ call'.op \in {"readWord", "writeWord"}
          /\ call'.ok <=> call'.address \in WordAddrs
          /\ call'.ok => call'.err = "none" /\ call'.idx = {call'.address, call'.address + 1}
          /\ ~call'.ok => call'.err = OutOfRange /\ call'.idx = {} /\ mem' = mem
          /\ call'.idx \subseteq Addr
          /\ DOMAIN mem' \subseteq Addr]_vars

\* a writeWord at 4095 has failed after an earlier call
C1_Witness ==
    /\ ncalls = 2
    /\ call.op = "writeWord"
    /\ call.address = MEM_SIZE - 1
    /\ ~call.ok

\* C2: writeWord(a, v) immediately followed by readWord(a) returns v, for
\* every a in [0, size-2], every value v and any memory contents.
C2_WriteReadRoundTrip ==
    [][(/\ call.op = "writeWord"
        /\ call.address \in WordAddrs
        /\ ncalls' = ncalls + 1
        /\ call'.op = "readWord"
        /\ call'.address = call.address)
       => call'.ok /\ call'.val = call.value]_vars

\* 0xABCD read back from the last word of memory
C2_Witness ==
    /\ ncalls = 2
    /\ call.op = "readWord"
    /\ call.address = MEM_SIZE - 2
    /\ call.val = 43981

\* C3: a successful writeWord(a, v) puts the high byte of v at a and the low
\* byte at a + 1 and changes no other byte; writes at a and a + 1 share
\* exactly one byte.
C3_WriteWordFrame ==
    [][(ncalls' # ncalls /\ call'.op = "writeWord" /\ call'.ok) =>
          /\ \A i \in Addr :
                byteAt(mem', i) = IF i = call'.address THEN HighByte(call'.value)
                          ELSE IF i = call'.address + 1 THEN LowByte(call'.value)
                          ELSE byteAt(mem, i)
          /\ (call.op = "writeWord" /\ call.ok /\ call'.address = call.address + 1) =>
                /\ Cardinality(call.idx \cap call'.idx) = 1
                /\ byteAt(mem', call.address) = HighByte(call.value)
                /\ byteAt(mem', call.address + 1) = HighByte(call'.value)
                /\ byteAt(mem', call.address + 2) = LowByte(call'.value)]_vars

\* 0xABCD written at 0 and then 0x00FF at 1
C3_Witness ==
    /\ ncalls = 2
    /\ call.op = "writeWord"
    /\ call.address = 1
    /\ byteAt(mem, 0) = 171
    /\ byteAt(mem, 1) = 0
    /\ byteAt(mem, 2) = 255

\* the decode, by arithmetic
Opc(w) == w \div 4096
Opd(w) == w % 4096

\* C4: fetch with PC = p in [0, 4094] sets IR to the big-endian word at p,
\* sets PC to p + 2 and leaves AC and memory unchanged; with p > 4094 it
\* fails with OutOfRange and leaves PC, IR, AC and memory unchanged.
C4_Fetch ==
    [][phase = "fetch" =>
          IF PC \in WordAddrs
          THEN /\ IR' = WordAt(mem, PC)
               /\ PC' = PC + 2
               /\ AC' = AC
               /\ mem' = mem
               /\ phase' = "execute"
               /\ err' = "none"
               /\ call'.idx = {PC, PC + 1}
          ELSE /\ err' = OutOfRange
               /\ phase' = "halted"
               /\ call'.idx = {}
               /\ UNCHANGED <<PC, IR, AC, mem>>]_vars

\* the fetch at PC = 4096 has failed
C4_Witness ==
    /\ phase = "halted"
    /\ err = OutOfRange
    /\ PC = MEM_SIZE
    /\ call.op = "readWord"
    /\ call.address = MEM_SIZE

\* C5: execute decodes opcode = high 4 bits, operand = low 12 bits; SEA sets
\* AC to the operand, ADD and MUL to the sum and product mod 2^16, DIV and
\* MOD (operand # 0) to quotient and remainder; memory, PC, IR unchanged.
C5_Immediate ==
    [][(/\ phase = "execute"
        /\ \/ Opc(IR) \in {15, 2, 3}
           \/ Opc(IR) \in {4, 5} /\ Opd(IR) # 0)
       => /\ AC' = CASE Opc(IR) = 15 -> Opd(IR)
                     [] Opc(IR) = 2 -> (AC + Opd(IR)) % 65536
                     [] Opc(IR) = 3 -> (AC * Opd(IR)) % 65536
                     [] Opc(IR) = 4 -> AC \div Opd(IR)
                     [] Opc(IR) = 5 -> AC % Opd(IR)
          /\ phase' = "prompt"
          /\ UNCHANGED <<mem, PC, IR>>]_vars

\* ADD 0003 has wrapped AC from 0xFFFF to 2
C5_Witness ==
    /\ phase = "prompt"
    /\ IR = 8195
    /\ pre.AC = 65535
    /\ AC = 2

\* C6: LDA with operand in [0, 4094] sets AC to the word there and changes
\* nothing else; STA stores AC big-endian there and changes no register and
\* no other byte; LDA or STA with operand 4095 fails with OutOfRange and
\* leaves AC, PC, IR and memory unchanged.
C6_LoadStore ==
    [][(phase = "execute" /\ Opc(IR) \in {0, 1}) =>
          IF Opd(IR) \in WordAddrs
          THEN /\ phase' = "prompt"
               /\ UNCHANGED <<PC, IR>>
               /\ IF Opc(IR) = 0
                  THEN AC' = WordAt(mem, Opd(IR)) /\ mem' = mem
                  ELSE /\ AC' = AC
                       /\ \A i \in Addr :
                             byteAt(mem', i) = IF i = Opd(IR) THEN HighByte(AC)
                                       ELSE IF i = Opd(IR) + 1 THEN LowByte(AC)
                                       ELSE byteAt(mem, i)
          ELSE /\ Opd(IR) = 4095
               /\ phase' = "halted"
               /\ err' = OutOfRange
               /\ UNCHANGED <<AC, PC, IR, mem>>]_vars

\* STA 0FFF has failed with AC = 5
C6_Witness ==
    /\ phase = "halted"
    /\ err = OutOfRange
    /\ IR = 8191
    /\ AC = 5

\* C7 as stated: after a cycle that fetched an unassigned opcode (0x6..0xE)
\* the run has halted with UnknownOpcode, memory, AC and IR have their
\* pre-fetch values and PC its pre-fetch value plus 2.
C7_Original ==
    [][(phase = "execute" /\ Opc(IR) \in 6 .. 14) =>
          /\ phase' = "halted"
          /\ err' = UnknownOpcode
          /\ mem' = pre.mem
          /\ AC' = pre.AC
          /\ IR' = pre.IR
          /\ PC' = pre.PC + 2]_vars

\* C7 amended: after a cycle that fetched an unassigned opcode (0x6..0xE)
\* the run has halted with UnknownOpcode, memory and AC have their
\* pre-fetch values, IR holds the fetched instruction word and PC its
\* pre-fetch value plus 2.
C7_UnknownOpcode ==
    [][(phase = "execute" /\ Opc(IR) \in 6 .. 14) =>
          /\ phase' = "halted"
          /\ err' = UnknownOpcode
          /\ mem' = pre.mem
          /\ AC' = pre.AC
          /\ IR' = WordAt(pre.mem, pre.PC)
          /\ Opc(IR') \in 6 .. 14
          /\ PC' = pre.PC + 2]_vars

\* the word 0xE123 has halted the run in its third cycle
C7_Witness ==
    /\ phase = "halted"
    /\ err = UnknownOpcode
    /\ IR = 57635
    /\ pre.IR # IR
    /\ PC = 6

Scenario2 == << <<"SEA", <<0, 0, 0, 0>>>>, <<"DIV", <<0, 0, 0, 0>>>> >>
Scenario2Mem == loadProgram(ZeroMem, Scenario2).val

\* C8: DIV or MOD with operand 0 halts the run with DivisionByZero whatever
\* AC is, leaving AC, IR, PC (as advanced by the fetch) and memory unchanged;
\* the program SEA 0000, DIV 0000 halts in its second cycle with AC = 0.
C8_DivisionByZero ==
    /\ [][(phase = "execute" /\ Opc(IR) \in {4, 5} /\ Opd(IR) = 0) =>
             /\ phase' = "halted"
             /\ err' = DivisionByZero
             /\ PC = pre.PC + 2
             /\ UNCHANGED <<AC, IR, PC, mem>>]_vars
    /\ [](mem = Scenario2Mem =>
             /\ AC = 0
             /\ PC <= 4
             /\ PC = 4 => phase \in {"execute", "halted"}
             /\ phase = "halted" => PC = 4 /\ IR = 16384 /\ err = DivisionByZero)

\* MOD 0000 has halted the run with AC = 4095
C8_Witness ==
    /\ phase = "halted"
    /\ err = DivisionByZero
    /\ IR = 20480
    /\ AC = 4095

\* C9: once a fetch or execute has failed the run loop is over: no step
\* follows and nothing changes; and the loop ends for no other reason than
\* OutOfRange, DivisionByZero or UnknownOpcode.
C9_FatalErrorEndsRun ==
    /\ [](phase \in {"fetch", "execute", "prompt", "halted"})
    /\ [](err \in {"none", OutOfRange, DivisionByZero, UnknownOpcode})
    /\ [](phase = "halted" <=> err # "none")
    /\ [][phase = "halted" => UNCHANGED vars]_vars
    /\ [][phase' = "halted" => phase \in {"fetch", "execute"} /\ io' = "error"]_vars

\* LDA 0FFF has ended the run in the second cycle
C9_Witness ==
    /\ phase = "halted"
    /\ err = OutOfRange
    /\ IR = 4095
    /\ PC = 4
    /\ ~ENABLED Next

InvalidRange(start, end) == start < 0 \/ end >= MEM_SIZE \/ start > end

\* C10: a dump request with start < 0, end >= size or start > end fails
\* with OutOfRange and does not end the run: the loop goes on to the next
\* fetch with PC, IR, AC and memory as they were.
C10_DumpErrorIsLocal ==
    [][\A start \in DumpStarts, end \in DumpEnds, format \in DumpFormats :
          (DumpRequest(start, end, format) /\ InvalidRange(start, end)) =>
              /\ io' = "dumpError"
              /\ phase' = "fetch"
              /\ err' = "none"
              /\ UNCHANGED <<PC, IR, AC, mem>>]_vars

\* a dump request was refused after the second cycle and the loop is at fetch
C10_Witness ==
    /\ io = "dumpError"
    /\ phase = "fetch"
    /\ PC = 4
    /\ AC # 0
    /\ ENABLED Fetch

\* the bytes a dump's lines stand for, in the order printed
RECURSIVE Flatten(_)
Flatten(lines) ==
    IF lines = <<>> THEN <<>>
    ELSE IF Len(lines) = 1 THEN lines[1]
    ELSE LET h == Len(lines) \div 2
         IN  Flatten(SubSeq(lines, 1, h)) \o Flatten(SubSeq(lines, h + 1, Len(lines)))

TokenByte(t, format) ==
    IF format = 16
    THEN IF Len(t) = 2 THEN 16 * t[1] + t[2] ELSE -1
    ELSE IF Len(t) = 8
         THEN 128 * t[1] + 64 * t[2] + 32 * t[3] + 16 * t[4]
              + 8 * t[5] + 4 * t[6] + 2 * t[7] + t[8]
         ELSE -1

PrintedBytes(lines, format) ==
    LET toks == Flatten(lines)
    IN  [i \in 1 .. Len(toks) |-> TokenByte(toks[i], format)]

\* C11: dump(start, end, format) fails with OutOfRange exactly when start < 0
\* or end >= size or start > end; failing or not, in either format, it leaves
\* memory unchanged; a successful dump prints exactly the bytes at
\* start..end in ascending order.
C11_Dump ==
    /\ [](drv.fn = "dump" =>
             /\ drv.ok <=> ~InvalidRange(drv.start, drv.end)
             /\ ~drv.ok => drv.err = OutOfRange /\ drv.lines = <<>>
             /\ drv.ok =>
                   /\ drv.err = "none"
                   /\ PrintedBytes(drv.lines, drv.format)
                         = [i \in 1 .. (drv.end - drv.start + 1) |->
                               byteAt(mem, drv.start + i - 1)])
    /\ [][mem' = mem]_vars

\* a binary dump of bytes 16..4095 has printed 0xAB 0xCD last
C11_Witness ==
    /\ drv.fn = "dump"
    /\ drv.ok
    /\ drv.start = 16
    /\ drv.end = MEM_SIZE - 1
    /\ drv.format = 2
    /\ Len(drv.lines) = 510
    /\ Len(drv.lines[510]) = 8
    /\ drv.lines[510][7] = <<1, 0, 1, 0, 1, 0, 1, 1>>
    /\ drv.lines[510][8] = <<1, 1, 0, 0, 1, 1, 0, 1>>

Scenario1 ==
    << <<"SEA", <<0, 0, 0, 5>>>>, <<"ADD", <<0, 0, 0, 3>>>>,
       <<"STA", <<0, 0, 1, 0>>>>, <<"LDA", <<0, 0, 1, 0>>>> >>

\* C12: from zeroed registers and a memory holding SEA 0005, ADD 0003,
\* STA 0010, LDA 0010 at 0, 2, 4, 6 and zero elsewhere, after exactly four
\* cycles (whatever dumps were asked for) AC = 8, the word at 0x10 is 8,
\* PC = 8 and no error has occurred.
C12_Scenario1 ==
    ld.prog = Scenario1 =>
        /\ hist.fetches = 0 =>
              /\ WordAt(mem, 0) = 61445
              /\ WordAt(mem, 2) = 8195
              /\ WordAt(mem, 4) = 4112
              /\ WordAt(mem, 6) = 16
              /\ DOMAIN mem \subseteq 0 .. 7
              /\ PC = 0 /\ IR = 0 /\ AC = 0
        /\ hist.fetches <= 4 => err = "none" /\ phase # "halted"
        /\ (hist.fetches = 4 /\ hist.executes = 4) =>
              /\ AC = 8
              /\ WordAt(mem, 16) = 8
              /\ PC = 8
              /\ err = "none"

\* the fourth cycle is over and a binary dump was printed after it
C12_Witness ==
    /\ ld.prog = Scenario1
    /\ hist.fetches = 4
    /\ hist.executes = 4
    /\ phase = "fetch"
    /\ io = "dumpBin"
    /\ AC = 8

\* C13: div(a, b) and mod(a, b) fail with DivisionByZero for every a when
\* b = 0; for b # 0 they return the unsigned quotient and remainder:
\* div(a, b) * b + mod(a, b) = a and 0 <= mod(a, b) < b.
C13_DivMod ==
    drv.fn = "alu" =>
        /\ drv.div # NotCalled =>
              /\ drv.div.ok <=> drv.b # 0
              /\ ~drv.div.ok => drv.div.err = DivisionByZero
              /\ drv.div.ok => /\ drv.div.val * drv.b <= drv.a
                               /\ drv.a - drv.div.val * drv.b < drv.b
        /\ drv.mod # NotCalled =>
              /\ drv.mod.ok <=> drv.b # 0
              /\ ~drv.mod.ok => drv.mod.err = DivisionByZero
              /\ drv.mod.ok => 0 <= drv.mod.val /\ drv.mod.val < drv.b
        /\ (drv.div # NotCalled /\ drv.mod # NotCalled /\ drv.b # 0) =>
              drv.div.val * drv.b + drv.mod.val = drv.a

\* 65535 divided by 4096: quotient 15, remainder 4095
C13_Witness ==
    /\ drv.fn = "alu"
    /\ drv.a = 65535
    /\ drv.b = 4096
    /\ drv.div.ok /\ drv.div.val = 15
    /\ drv.mod.ok /\ drv.mod.val = 4095

\* C14: add(a, b) = (a + b) mod 2^16 and mul(a, b) = (a * b) mod 2^16 for
\* all 16-bit a and b, with no saturation and no failure.
C14_AddMulWrap ==
    drv.fn = "alu" =>
        /\ drv.add # NotCalled =>
              drv.add.ok /\ drv.add.val = (drv.a + drv.b) % 65536
        /\ drv.mul # NotCalled =>
              drv.mul.ok /\ drv.mul.val = low16Product(drv.a, drv.b)
\* the opcode the instruction set assigns to each mnemonic
MnemonicCode ==
    [SEA |-> 15, ADD |-> 2, MUL |-> 3, DIV |-> 4, MOD |-> 5, STA |-> 1, LDA |-> 0]

\* non-blank lines among the first i - 1 lines of the file
NonBlankBefore(f, i) ==
    IF i <= f.pad + 1 THEN i - 1
    ELSE f.pad + Cardinality({j \in 1 .. i - 1 - f.pad : f.prog[j] # Blank})

\* C15: the word the loader writes for a line MNEMONIC OPERAND decodes in
\* CPU::execute to the mnemonic's opcode and to the operand literal's value
\* taken as a 12-bit value, also for literals above FFF.
C15_LoaderDecodes ==
    [][(phase = "load" /\ ld'.address = ld.address + 2) =>
          LET line == lineAt(ld, ld.next)
              word == WordAt(mem', ld.address)
          IN  /\ opcodeIn(word) = MnemonicCode[line[1]]
              /\ operandIn(word) = stoi16(line[2]) % 4096]_vars

\* C16: with n <= 2048 non-blank lines the loader finishes; the word of the
\* k-th non-blank line is at address 2k, a blank line consumes no address,
\* and every byte at an index >= 2n is zero.
C16_LoaderLayout ==
    phase \in {"load", "loaded", "aborted"} =>
        /\ ld.address = 2 * NonBlankBefore(ld, ld.next)
        /\ \A i \in 1 .. ld.next - 1 :
              lineAt(ld, i) # Blank =>
                 WordAt(mem, 2 * NonBlankBefore(ld, i)) = assemble(lineAt(ld, i))
        /\ \A i \in DOMAIN mem : i < ld.address
        /\ NonBlankBefore(ld, fileLength(ld) + 1) <= MEM_SIZE \div 2 =>
              phase # "aborted"
        /\ phase = "loaded" => ld.next = fileLength(ld) + 1

\* a file of 2048 non-blank lines and two blank ones, loaded to its end: its
\* last word SEA 1 is at 4094
C16_Witness ==
    /\ phase = "loaded"
    /\ ld.pad = PadLines
    /\ ld.prog = << Blank, <<"SEA", <<1>>>>, Blank >>
    /\ ld.address = MEM_SIZE
    /\ WordAt(mem, MEM_SIZE - 2) = 61441

\* C17: for every opcode in 0..15 and operand in 0..4095, decoding the word
\* (opcode << 12) | operand gives back the same opcode and operand.
C17_RoundTrip ==
    (drv.fn = "codec" /\ drv.dec.done) =>
        /\ drv.dec.opcode = drv.opcode
        /\ drv.dec.operand = drv.operand
        /\ drv.enc.instruction = drv.opcode * 4096 + drv.operand

\* opcode 0xF with operand 0xFFF goes through the word 0xFFFF
C17_Witness ==
    /\ drv.fn = "codec"
    /\ drv.opcode = 15 /\ drv.operand = 4095
    /\ drv.enc.done /\ drv.enc.instruction = 65535
    /\ drv.dec.done /\ drv.dec.opcode = 15 /\ drv.dec.operand = 4095

\* C18: whatever the initial memory and the dump requests, the run loop
\* eventually halts with a fatal error, after at most 2048 successfully
\* executed instructions; if nothing failed before, it is the fetch at
\* PC = 4096 that fails with OutOfRange.
C18_Halts ==
    /\ <>(phase = "halted" /\ err # "none")
    /\ [](hist.executes <= MEM_SIZE \div 2)
    /\ []((phase = "halted" /\ hist.executes = MEM_SIZE \div 2) =>
             (PC = MEM_SIZE /\ err = OutOfRange /\ call.op = "readWord"
                /\ call.address = MEM_SIZE))

\* the self-modifying program has run through the whole memory
C18_Witness ==
    /\ phase = "halted"
    /\ ld.prog = << <<"SEA", <<0, 15, 15, 15>>>>, <<"STA", <<0, 0, 0, 1>>>>,
                    <<"LDA", <<0, 0, 0, 1>>>> >>
    /\ hist.executes = MEM_SIZE \div 2
    /\ err = OutOfRange

\* C19: in a run started with PC = 0, PC is even, at most 4096 and twice the
\* number of successful fetches; PC never goes back (no wrap to 0), and the
\* k-th successful fetch reads address 2k, so that no instruction is fetched
\* from an odd address or twice from the same address.
C19_ProgramCounter ==
    /\ [](/\ PC % 2 = 0
          /\ PC <= MEM_SIZE
          /\ PC = 2 * hist.fetches)
    /\ [][/\ PC' >= PC
          /\ hist.fetches' # hist.fetches =>
                /\ hist.fetches' = hist.fetches + 1
                /\ phase = "fetch"
                /\ call'.op = "readWord"
                /\ call'.address = 2 * hist.fetches
                /\ call'.address % 2 = 0
                /\ PC' = call'.address + 2]_vars

\* the last word of the memory has been fetched and PC stands at 4096
C19_Witness ==
    /\ phase = "execute"
    /\ PC = MEM_SIZE
    /\ hist.fetches = MEM_SIZE \div 2
    /\ call.op = "readWord" /\ call.address = MEM_SIZE - 2

\* C20: memory changes only in a step that successfully executes STA, and
\* then only at the bytes operand and operand + 1; fetch, the other
\* instructions, failing steps and dump requests leave every byte as it was;
\* execute never changes PC or IR and fetch never changes AC.
C20_Frame ==
    [][/\ mem' # mem =>
             /\ phase = "execute" /\ phase' = "prompt"
             /\ opcodeIn(IR) = 1
             /\ \A i \in (DOMAIN mem \cup DOMAIN mem') \ {operandIn(IR), operandIn(IR) + 1} :
                   byteAt(mem', i) = byteAt(mem, i)
       /\ (phase = "execute" /\ opcodeIn(IR) # 1) => mem' = mem
       /\ phase' = "halted" => mem' = mem
       /\ phase \in {"fetch", "prompt"} => mem' = mem
       /\ phase = "execute" => PC' = PC /\ IR' = IR
       /\ phase = "fetch" => AC' = AC]_vars

\* STA 0010 has just stored the accumulator 8 over two zero bytes
C20_Witness ==
    /\ phase = "prompt"
    /\ opcodeIn(IR) = 1 /\ operandIn(IR) = 16
    /\ AC = 8
    /\ WordAt(pre.mem, 16) = 0
    /\ WordAt(mem, 16) = 8

====
